---- MODULE Spec2Model ----
(***************************************************************************)
(* Command / Observer / Mediator example of src/main.rs as a state         *)
(* machine.  The program is single threaded: a call made by the client    *)
(* (main, or any code using the operations) runs to completion, step by   *)
(* step on a call stack, before the client makes its next call.           *)
(***************************************************************************)
EXTENDS Integers, Sequences, FiniteSets, TLC

(* ---------------------------------------------------------------- bounds *)
MaxHandlers == 2
MaxUpdates == 2
\* handlers of the client for another event type than LightAction
MaxOthers == 1

(* ------------------------------------------------------ program constants *)
\* u8::MAX + 1, the modulus of LightStateObserver::update_count
U8Modulus == 256

(* ---------------------------------------------------------------- inputs *)
\* TypeId::of::<LightAction>() and the TypeId of any other type
TypeIds == {"LightAction", "OtherEvent"}
\* the client names its lights apart: the i-th light it builds has the i-th name
LightNameSeq == <<"light_1", "light_2">>
LightNames == {LightNameSeq[i] : i \in 1..Len(LightNameSeq)}
\* names an event may carry: the lights' names and one that no light has
TargetNames == LightNames \cup {"nonexistent"}
ObserverKeys == {"light_observer_1", "light_observer_2"}
LightActionType == {"On", "Off"}
\* Box<dyn Any> payloads: a LightAction, or a value of another type
LightAction(a, n) == [type |-> "LightAction", action_type |-> a, light_name |-> n]
\* (the fields of the other value are what a LightAction laid over it would read)
OtherPayload == [type |-> "OtherEvent", action_type |-> "On", light_name |-> LightNameSeq[1]]
Events == {LightAction(a, n) : a \in LightActionType, n \in TargetNames} \cup {OtherPayload}
\* the arguments of broadcast: the event type the client names and the payload it boxes,
\* which may be of that type or of another
Broadcasts == {<<"LightAction", e>> : e \in Events}
                \cup {<<"OtherEvent", OtherPayload>>,
                      <<"OtherEvent", LightAction("On", LightNameSeq[1])>>}

VARIABLES
    handlers,    \* ConcreteMediator::handlers : TypeId -> Vec<Box<dyn Handler>>
    registered,  \* the handlers in the order of the mediate calls that registered them
    handlerObjs, \* the Handler objects: the type id handles_type returns, light_map, and
                 \* whether moved into the mediator
    lights,      \* the Light objects: name, state, observer_map (key -> boxed observer)
    borrowed,    \* the lights whose RefCell is mutably borrowed
    note,        \* the observer the client's last attach_observer / detach_observer dropped,
                 \* kept while the client only executes commands
    stack,       \* the call stack of the call in progress
    panicked,    \* "none", or the panic that ended the program
    call,        \* the client's call in progress, or its last call
    ret,         \* what that call returned: "pending", "unit", "true", "false", "panic"
    trace,       \* what that call has done, in order
    pre          \* the lights as they were when that call began

vars == <<handlers, registered, handlerObjs, lights, borrowed, note, stack, panicked,
          call, ret, trace, pre>>

(* ------------------------------------------------------------- hash maps *)
EmptyMap == [k \in {} |-> k]
\* HashMap::insert: adds the entry or replaces the value under the key
MapInsert(m, k, v) == [x \in (DOMAIN m) \cup {k} |-> IF x = k THEN v ELSE m[x]]
\* HashMap::remove
MapRemove(m, k) == [x \in (DOMAIN m) \ {k} |-> m[x]]

(* ----------------------------------------------------------------- state *)
LightIds == 1..Len(lights)
HandlerIds == 1..Len(handlerObjs)

\* the lights some handler's light_map holds
Held == UNION {{handlerObjs[h].light_map[n] : n \in DOMAIN handlerObjs[h].light_map} :
                 h \in HandlerIds}
NoNote == <<"none", 0, "light_observer_1">>
NoObserver == [kind |-> "none", update_count |-> 0, light |-> 0, verb |-> "On"]
NoCall == [op |-> "none", ty |-> "LightAction", event |-> OtherPayload, found |-> FALSE,
           light |-> 0, verb |-> "On", key |-> "light_observer_1", observer |-> NoObserver]

Init ==
    /\ handlers = EmptyMap
    /\ registered = <<>>
    /\ handlerObjs = <<>>
    /\ lights = <<>>
    /\ borrowed = {}
    /\ note = NoNote
    /\ stack = <<>>
    /\ panicked = "none"
    /\ call = NoCall
    /\ ret = "unit"
    /\ trace = <<>>
    /\ pre = <<>>

(* ------------------------------------------------------------ call stack *)
Idle == stack = <<>> /\ panicked = "none"
Top == stack[Len(stack)]
Pop == SubSeq(stack, 1, Len(stack) - 1)
ReplaceTop(f) == [stack EXCEPT ![Len(stack)] = f]
NoFrame == [kind |-> "none", ty |-> "LightAction", todo |-> <<>>, event |-> OtherPayload,
            light |-> 0, verb |-> "On", pc |-> "none", pending |-> {}]
BroadcastFrame(ty, hs, event) ==
    [NoFrame EXCEPT !.kind = "broadcast", !.ty = ty, !.todo = hs, !.event = event]
\* (mutant) a command that puts its work off: execute returns without running on / off
ExecuteFrameDeferred(l, verb) ==
    [NoFrame EXCEPT !.kind = "execute", !.light = l, !.verb = verb, !.pc = "notify"]

ExecuteFrame(l, verb) ==
    [NoFrame EXCEPT !.kind = "execute", !.light = l, !.verb = verb, !.pc = "borrow_mut"]
\* an entry of the trace: a handler called, a command entered or left, an observer told
NoEvent == [type |-> "none", action_type |-> "On", light_name |-> "nonexistent"]
Entry(e, h, l, key, state, count) ==
    [e |-> e, h |-> h, l |-> l, key |-> key, state |-> state, count |-> count,
     event |-> NoEvent]
\* the entry of handler h called with the event, which names light l of h (0: none)
HandlerEntry(h, l, event) ==
    [Entry("handle_event", h, l, "", FALSE, 0) EXCEPT !.event = event]
\* the client starts call c, which takes several steps
Begin(c) ==
    /\ call' = c
    /\ ret' = "pending"
    /\ trace' = <<>>
    /\ pre' = lights
\* the client makes call c, which returns r at once
Done(c, r) ==
    /\ call' = c
    /\ ret' = r
    /\ trace' = <<>>
    /\ pre' = lights
\* the call in progress returns r to the client
Return(r) ==
    /\ ret' = r
    /\ UNCHANGED <<call, pre>>
\* a panic unwinds the whole stack (nothing in the program catches it), dropping
\* every RefMut guard on the way, and ends the program
Panic(msg) ==
    /\ panicked' = msg
    /\ stack' = <<>>
    /\ borrowed' = {}
    /\ ret' = "panic"
\* the cap on the observers' counters that keeps the model finite
CanMutate ==
    \A l \in LightIds : \A k \in DOMAIN lights[l].observer_map :
        lights[l].observer_map[k].update_count < MaxUpdates

(* ----------------------------------------------------------- constructors *)
\* Light::new(name, initial_state)
LightNew(name, initial_state) ==
    /\ Idle
    /\ Len(lights) < Len(LightNameSeq)
    /\ name = LightNameSeq[Len(lights) + 1]
    /\ lights' = Append(lights, [name |-> name, state |-> initial_state,
                                 observer_map |-> EmptyMap])
    /\ Done([NoCall EXCEPT !.op = "Light::new"], "unit")
    /\ note' = NoNote
    /\ UNCHANGED <<handlers, registered, handlerObjs, borrowed, stack, panicked>>

\* the handlers built so far that handle event type ty
HandlersOf(ty) == {h \in HandlerIds : handlerObjs[h].handles = ty}

\* LightActionHandler::new(); the client builds, fills and registers one handler
\* before it builds the next, as main does
LightActionHandlerNew ==
    /\ Idle
    /\ \A h \in HandlerIds : handlerObjs[h].mediated
    /\ Cardinality(HandlersOf("LightAction")) < MaxHandlers
    /\ handlerObjs' = Append(handlerObjs, [handles |-> "LightAction", light_map |-> EmptyMap,
                                           mediated |-> FALSE])
    /\ Done([NoCall EXCEPT !.op = "LightActionHandler::new"], "unit")
    /\ note' = NoNote
    /\ UNCHANGED <<handlers, registered, lights, borrowed, stack, panicked>>

\* a Handler of the client for another event type: its handles_type returns that type's
\* id, it holds no light, and its handle_event touches nothing of this program
OtherHandlerNew ==
    /\ Idle
    /\ \A h \in HandlerIds : handlerObjs[h].mediated
    /\ Cardinality(HandlersOf("OtherEvent")) < MaxOthers
    /\ handlerObjs' = Append(handlerObjs, [handles |-> "OtherEvent", light_map |-> EmptyMap,
                                           mediated |-> FALSE])
    /\ Done([NoCall EXCEPT !.op = "Handler::new"], "unit")
    /\ note' = NoNote
    /\ UNCHANGED <<handlers, registered, lights, borrowed, stack, panicked>>

\* LightActionHandler::add_light(light): the light moves into the handler's map under
\* its own name.  A light is a value: it moves into one handler only, and from then on
\* only that handler's handle_event reaches it; a handler that was moved into the
\* mediator can no longer be called by the client.
add_light(h, l) ==
    /\ Idle
    /\ handlerObjs[h].handles = "LightAction"
    /\ ~handlerObjs[h].mediated
    /\ l \notin Held
    /\ handlerObjs' = [handlerObjs EXCEPT
                          ![h].light_map = MapInsert(@, lights[l].name, l)]
    /\ Done([NoCall EXCEPT !.op = "add_light"], "unit")
    /\ note' = NoNote
    /\ UNCHANGED <<handlers, registered, lights, borrowed, stack, panicked>>

(* --------------------------------------------------------------- mediator *)
\* (mutant) Light::off that assigns true, as Light::on does
VerbStateOn(verb) == TRUE

\* the state Light::on / Light::off assigns
VerbState(verb) == verb = "On"

\* Handler::handles_type: TypeId::of::<LightAction>() for a LightActionHandler, the id
\* of its own event type for a handler of the client
handles_type(h) == handlerObjs[h].handles

\* (mutant) mediate that starts the bucket anew: insert(handles_type, vec![handler])
MediatedOverwrite(reg, h) == MapInsert(reg, handles_type(h), <<h>>)

\* (mutant) mediate that files the handler under another type id than the one it declares
MediatedMisfiled(reg, h) ==
    LET k == CHOOSE t \in TypeIds : t # handles_type(h)
    IN IF k \in DOMAIN reg THEN [reg EXCEPT ![k] = Append(@, h)]
       ELSE MapInsert(reg, k, <<h>>)

\* (mutant) mediate that puts the handler at the front of its bucket
MediatedFront(reg, h) ==
    IF handles_type(h) \in DOMAIN reg
    THEN [reg EXCEPT ![handles_type(h)] = <<h>> \o @]
    ELSE MapInsert(reg, handles_type(h), <<h>>)

\* the registry after ConcreteMediator::mediate(handler)
Mediated(reg, h) ==
    IF handles_type(h) \in DOMAIN reg
    THEN [reg EXCEPT ![handles_type(h)] = Append(@, h)]
    ELSE MapInsert(reg, handles_type(h), <<h>>)

\* ConcreteMediator::mediate(handler): the handler moves into the mediator
mediate(h) ==
    /\ Idle
    /\ ~handlerObjs[h].mediated
    /\ handlers' = Mediated(handlers, h)
    /\ registered' = Append(registered, h)
    /\ handlerObjs' = [handlerObjs EXCEPT ![h].mediated = TRUE]
    /\ Done([NoCall EXCEPT !.op = "mediate"], "unit")
    /\ note' = NoNote
    /\ UNCHANGED <<lights, borrowed, stack, panicked>>

\* (mutant) broadcast that reports a missing bucket to its caller
BroadcastResultReported(found) == IF found THEN "unit" ELSE "UnhandledEventKind"

\* what ConcreteMediator::broadcast returns when its match found a bucket (found) or
\* none: fn broadcast(..) has no return type, both arms yield the unit value
BroadcastResult(found) == "unit"

\* the handlers ConcreteMediator::broadcast goes through: the bucket of event_type, in
\* the order of the Vec; none when handlers.get_mut(&event_type) is None
Bucket(event_type) ==
    IF event_type \in DOMAIN handlers THEN handlers[event_type] ELSE <<>>

\* (mutant) a lookup that falls back to every registered handler when the event type
\* has no bucket
get_mut_or_all(event_type) ==
    IF event_type \in DOMAIN handlers THEN <<handlers[event_type]>>
    ELSE IF registered = <<>> THEN <<>> ELSE <<registered>>

\* self.handlers.get_mut(&event_type): None (<<>>), or Some(bucket) (<<bucket>>)
get_mut(event_type) ==
    IF event_type \in DOMAIN handlers THEN <<handlers[event_type]>> ELSE <<>>

\* ConcreteMediator::broadcast(event_type, event): the match on handlers.get_mut
broadcast(event_type, event) ==
    /\ Idle
    /\ CanMutate
    /\ IF get_mut(event_type) # <<>>
       THEN /\ stack' = <<BroadcastFrame(event_type, get_mut(event_type)[1], event)>>
            /\ Begin([NoCall EXCEPT !.op = "broadcast", !.ty = event_type,
                                    !.event = event, !.found = TRUE])
       ELSE /\ stack' = stack
            /\ Done([NoCall EXCEPT !.op = "broadcast", !.ty = event_type,
                                   !.event = event], BroadcastResult(FALSE))
    /\ note' = NoNote
    /\ UNCHANGED <<handlers, registered, handlerObjs, lights, borrowed, panicked>>

\* (mutant) handle_event that falls back to a light of the handler when the name is unknown
TargetOfFallback(h, event) ==
    IF event.type # "LightAction" THEN 0
    ELSE IF event.light_name \in DOMAIN handlerObjs[h].light_map
         THEN handlerObjs[h].light_map[event.light_name]
         ELSE IF DOMAIN handlerObjs[h].light_map = {} THEN 0
              ELSE handlerObjs[h].light_map[CHOOSE n \in DOMAIN handlerObjs[h].light_map : TRUE]

\* (mutant) handle_event that takes a light of its map whatever name the action carries
TargetOfAny(h, event) ==
    IF event.type # "LightAction" \/ event.light_name \notin DOMAIN handlerObjs[h].light_map
    THEN 0
    ELSE handlerObjs[h].light_map[CHOOSE n \in DOMAIN handlerObjs[h].light_map :
                                     \A m \in DOMAIN handlerObjs[h].light_map :
                                        m = n \/ handlerObjs[h].light_map[m]
                                                   > handlerObjs[h].light_map[n]]

\* (mutant) handle_event that casts the payload to a LightAction without checking its type
TargetOfUnchecked(h, event) ==
    IF event.light_name \in DOMAIN handlerObjs[h].light_map
    THEN handlerObjs[h].light_map[event.light_name]
    ELSE 0

\* LightActionHandler::handle_event: the light the event names, or 0:
\* downcast_ref::<LightAction>() fails on another payload, light_map.get on another name
TargetOf(h, event) ==
    IF event.type = "LightAction" /\ event.light_name \in DOMAIN handlerObjs[h].light_map
    THEN handlerObjs[h].light_map[event.light_name]
    ELSE 0

\* (mutant) a loop that takes the handlers out of the bucket: handlers.drain(..)
VisitedDrained(reg, ty) == [reg EXCEPT ![ty] = Tail(@)]

\* the registry after a turn of `for handler in handlers`: the loop borrows the bucket
\* of event type ty (iter_mut) and leaves it as it is
Visited(reg, ty) == reg

\* one turn of the for loop of broadcast: handler.handle_event(&event), which builds
\* the Remote with the command for the action type and calls remote.execute()
handle_event ==
    /\ stack # <<>>
    /\ Top.kind = "broadcast"
    /\ Top.todo # <<>>
    /\ LET h == Head(Top.todo)
           l == TargetOf(h, Top.event)
           rest == ReplaceTop([Top EXCEPT !.todo = Tail(@)])
       IN /\ trace' = Append(trace, HandlerEntry(h, l, Top.event))
          /\ stack' = IF l = 0 THEN rest
                      ELSE Append(rest, ExecuteFrame(l, Top.event.action_type))
    /\ handlers' = Visited(handlers, Top.ty)
    /\ UNCHANGED <<registered, handlerObjs, lights, borrowed, note, panicked,
                   call, ret, pre>>

\* the for loop of broadcast is over: broadcast returns
broadcast_return ==
    /\ stack # <<>>
    /\ Top.kind = "broadcast"
    /\ Top.todo = <<>>
    /\ stack' = Pop
    /\ Return(BroadcastResult(TRUE))
    /\ UNCHANGED <<handlers, registered, handlerObjs, lights, borrowed, note, panicked,
                   trace>>

(* ---------------------------------------------------- command and subject *)
\* Command::execute called by the client on a LightOnCommand / LightOffCommand
\* (verb) bound to a light of its own, directly or through Remote::execute
execute(l, verb) ==
    /\ Idle
    /\ CanMutate
    /\ l \notin Held
    /\ stack' = <<ExecuteFrame(l, verb)>>
    /\ Begin([NoCall EXCEPT !.op = "execute", !.light = l, !.verb = verb])
    /\ UNCHANGED <<handlers, registered, handlerObjs, lights, borrowed, note, panicked>>

\* Remote::execute called by the client on a Remote whose command is bound to a light of
\* its own: self.command.execute(), as often as the client likes
remote_execute(l, verb) ==
    /\ Idle
    /\ l \notin Held
    /\ stack' = <<ExecuteFrame(l, verb)>>
    /\ Begin([NoCall EXCEPT !.op = "execute", !.light = l, !.verb = verb])
    /\ UNCHANGED <<handlers, registered, handlerObjs, lights, borrowed, note, panicked>>

\* (mutant) a cell that does not check its borrow flag
BorrowUnchecked(l) == TRUE

\* RefCell::borrow_mut: whether the exclusive borrow of light l is granted
BorrowGranted(l) == l \notin borrowed

\* (mutant) on / off that tells the observers only when the state changes
ToNotifyIfChanged(l) ==
    IF lights[l].state = VerbState(Top.verb) THEN {} ELSE DOMAIN lights[l].observer_map

\* (mutant) notify_observers that stops after the first entry
ToNotifyFirst(l) ==
    IF DOMAIN lights[l].observer_map = {} THEN {}
    ELSE {CHOOSE k \in DOMAIN lights[l].observer_map : TRUE}

\* the entries the for loop of notify_observers visits: observer_map.values_mut()
ToNotify(l) == DOMAIN lights[l].observer_map

\* the first statements of execute and of on / off: self.light.borrow_mut(), which
\* panics when the light is already borrowed, then self.state = .., then
\* notify_observers starts to iterate observer_map
execute_enter ==
    /\ stack # <<>>
    /\ Top.kind = "execute"
    /\ Top.pc = "borrow_mut"
    /\ LET l == Top.light
       IN IF BorrowGranted(l)
          THEN /\ borrowed' = borrowed \cup {l}
               /\ lights' = [lights EXCEPT ![l].state = VerbState(Top.verb)]
               /\ stack' = ReplaceTop([Top EXCEPT !.pc = "notify",
                                                  !.pending = ToNotify(l)])
               /\ trace' = Append(trace, Entry("execute", 0, l, "", VerbState(Top.verb), 0))
               /\ UNCHANGED <<panicked, ret>>
          ELSE /\ Panic("BorrowMutError")
               /\ trace' = Append(trace, Entry("panic", 0, l, "", VerbState(Top.verb), 0))
               /\ UNCHANGED lights
    /\ UNCHANGED <<handlers, registered, handlerObjs, note, call, pre>>

\* update_count += 1 on a u8: whether the sum exceeds u8::MAX, and the sum as a u8
Overflows(c) == c + 1 >= U8Modulus
Incremented(c) == (c + 1) % U8Modulus

\* one turn of the for loop of notify_observers: observer.on_subject_updated(&self.state)
\* for an entry of observer_map not visited yet (a HashMap iterates in no given order).
\* A LightStateObserver counts the update and prints the state and the count; an
\* observer that executes a Command calls Command::execute.  At u8::MAX the increment
\* panics in a build with overflow checks and wraps to 0 in a build without.
on_subject_updated ==
    /\ stack # <<>>
    /\ Top.kind = "execute"
    /\ Top.pc = "notify"
    /\ \E key \in Top.pending :
         LET l == Top.light
             o == lights[l].observer_map[key]
             rest == ReplaceTop([Top EXCEPT !.pending = @ \ {key}])
         IN IF o.kind = "LightStateObserver"
            THEN \/ /\ Overflows(o.update_count)
                    /\ Panic("overflow")
                    /\ trace' = Append(trace, Entry("panic", 0, l, key, lights[l].state, 0))
                    /\ UNCHANGED lights
                 \/ /\ lights' = [lights EXCEPT
                                     ![l].observer_map[key].update_count = Incremented(@)]
                    /\ trace' = Append(trace, Entry("on_subject_updated", 0, l, key,
                                         lights[l].state, Incremented(o.update_count)))
                    /\ stack' = rest
                    /\ UNCHANGED <<borrowed, panicked, ret>>
            ELSE /\ trace' = Append(trace, Entry("on_subject_updated", 0, l, key,
                                                 lights[l].state, 0))
                 /\ stack' = Append(rest, ExecuteFrame(o.light, o.verb))
                 /\ UNCHANGED <<lights, borrowed, panicked, ret>>
    /\ UNCHANGED <<handlers, registered, handlerObjs, note, call, pre>>

\* (mutant) execute that leaks its RefMut guard
ReleasedNever(l) == borrowed

\* the borrows left when execute on light l returns: the RefMut guard `light` is dropped
Released(l) == borrowed \ {l}

\* notify_observers has visited every entry: on / off and execute return
execute_return ==
    /\ stack # <<>>
    /\ Top.kind = "execute"
    /\ Top.pc = "notify"
    /\ Top.pending = {}
    /\ borrowed' = Released(Top.light)
    /\ stack' = Pop
    /\ trace' = Append(trace, Entry("return", 0, Top.light, "", lights[Top.light].state, 0))
    /\ IF Len(stack) = 1 THEN Return("unit") ELSE UNCHANGED <<call, ret, pre>>
    /\ UNCHANGED <<handlers, registered, handlerObjs, lights, note, panicked>>

(* -------------------------------------------------------------- observers *)
\* LightStateObserver { update_count: 0 }, as main builds it
LightStateObserver == [kind |-> "LightStateObserver", update_count |-> 0,
                       light |-> 0, verb |-> "On"]
\* an Observer<bool> of the client that holds a Command (a light and a verb) and
\* executes it when it is notified
CommandObserver(l, verb) == [kind |-> "CommandObserver", update_count |-> 0,
                             light |-> l, verb |-> verb]
\* the commands the client's observers hold are LightOnCommands
CommandObservers == {CommandObserver(l, "On") : l \in LightIds \ Held}

\* (mutant) attach_observer that keeps the observer already under the key
AttachKeep(m, observer_key, observer) ==
    IF observer_key \in DOMAIN m THEN m ELSE MapInsert(m, observer_key, observer)

\* the observer_map after Subject::attach_observer(observer_key, observer)
Attach(m, observer_key, observer) == MapInsert(m, observer_key, observer)

\* Light::attach_observer(observer_key, Box::new(observer)) on a light of the client
attach_observer(l, observer_key, observer) ==
    /\ Idle
    /\ l \notin Held
    /\ lights' = [lights EXCEPT ![l].observer_map = Attach(@, observer_key, observer)]
    /\ note' = IF observer_key \in DOMAIN lights[l].observer_map
               THEN <<"replaced", l, observer_key>> ELSE NoNote
    /\ Done([NoCall EXCEPT !.op = "attach_observer", !.light = l, !.key = observer_key,
                           !.observer = observer], "unit")
    /\ UNCHANGED <<handlers, registered, handlerObjs, borrowed, stack, panicked>>

\* (mutant) detach_observer that leaves the entry in the map
DetachKeep(m, observer_key) == m

\* the observer_map after Subject::detach_observer(observer_key)
Detach(m, observer_key) ==
    IF observer_key \notin DOMAIN m THEN m ELSE MapRemove(m, observer_key)

\* (mutant) detach_observer that returns true whatever it found
DetachResultTrue(m, observer_key) == "true"

\* what Subject::detach_observer(observer_key) returns
DetachResult(m, observer_key) ==
    IF observer_key \notin DOMAIN m THEN "false" ELSE "true"

\* Light::detach_observer(observer_key) on a light of the client
detach_observer(l, observer_key) ==
    /\ Idle
    /\ l \notin Held
    /\ lights' = [lights EXCEPT ![l].observer_map = Detach(@, observer_key)]
    /\ note' = IF observer_key \in DOMAIN lights[l].observer_map
               THEN <<"detached", l, observer_key>> ELSE NoNote
    /\ Done([NoCall EXCEPT !.op = "detach_observer", !.light = l, !.key = observer_key],
            DetachResult(lights[l].observer_map, observer_key))
    /\ UNCHANGED <<handlers, registered, handlerObjs, borrowed, stack, panicked>>

(* --------------------------------------------------------- specifications *)
\* the mediator: lights with their observers are moved into handlers, handlers into
\* the mediator, and events are broadcast
Next ==
    \/ \E n \in LightNames, b \in BOOLEAN : LightNew(n, b)
    \/ \E l \in LightIds, k \in ObserverKeys : attach_observer(l, k, LightStateObserver)
    \/ LightActionHandlerNew
    \/ \E h \in HandlerIds, l \in LightIds : add_light(h, l)
    \/ \E h \in HandlerIds : mediate(h)
    \/ \E b \in Broadcasts : broadcast(b[1], b[2])
    \/ handle_event
    \/ broadcast_return
    \/ execute_enter
    \/ on_subject_updated
    \/ execute_return

Spec == Init /\ [][Next]_vars

\* the subject: the client keeps its lights, attaches and detaches observers and
\* executes commands on them
NextSubject ==
    \/ \E n \in LightNames, b \in BOOLEAN : LightNew(n, b)
    \/ \E l \in LightIds, k \in ObserverKeys : attach_observer(l, k, LightStateObserver)
    \/ \E l \in LightIds, k \in ObserverKeys : detach_observer(l, k)
    \/ \E l \in LightIds, v \in LightActionType : execute(l, v)
    \/ execute_enter
    \/ on_subject_updated
    \/ execute_return

SpecSubject == Init /\ [][NextSubject]_vars

\* the subject with observers that execute commands when they are notified
NextNested ==
    \/ \E n \in LightNames, b \in BOOLEAN : LightNew(n, b)
    \/ \E l \in LightIds, k \in ObserverKeys :
          \E o \in {LightStateObserver} \cup CommandObservers : attach_observer(l, k, o)
    \/ \E l \in LightIds, v \in LightActionType : execute(l, v)
    \/ execute_enter
    \/ on_subject_updated
    \/ execute_return

SpecNested == Init /\ [][NextNested]_vars

\* the registry: handlers for LightAction and handlers of the client for another event
\* type are registered in any order, and events are broadcast to them
NextRegistry ==
    \/ LightActionHandlerNew
    \/ OtherHandlerNew
    \/ \E h \in HandlerIds : mediate(h)
    \/ \E b \in Broadcasts : broadcast(b[1], b[2])
    \/ handle_event
    \/ broadcast_return

SpecRegistry == Init /\ [][NextRegistry]_vars

\* the counter: one light with one LightStateObserver, switched through a Remote any
\* number of times
NextCounter ==
    \/ \E b \in BOOLEAN : LightNew(LightNameSeq[1], b)
    \/ \E l \in LightIds : attach_observer(l, "light_observer_1", LightStateObserver)
    \/ \E l \in LightIds, v \in LightActionType : remote_execute(l, v)
    \/ execute_enter
    \/ on_subject_updated
    \/ execute_return

SpecCounter == Init /\ [][NextCounter]_vars

(* ----------------------------------------------------------------- claims *)
\* the client's call op has returned
Returned(op) == stack = <<>> /\ panicked = "none" /\ call.op = op
\* the handlers the call went through, in order
Handled == SelectSeq(trace, LAMBDA x : x.e = "handle_event")
\* the notifications of the call, in order: all of them, and those of one entry of a light
Told == SelectSeq(trace, LAMBDA x : x.e = "on_subject_updated")
Notified(l, k) == SelectSeq(trace, LAMBDA x : x.e = "on_subject_updated" /\ x.l = l /\ x.key = k)
\* the handlers registered for an event type, in the order of their registration
RegisteredFor(ty) == SelectSeq(registered, LAMBDA h : handles_type(h) = ty)
\* the lights a command on the stack has borrowed
Holders == {stack[i].light : i \in {j \in DOMAIN stack :
                                      stack[j].kind = "execute" /\ stack[j].pc = "notify"}}
\* every entry of light l was told once, of state b, and has counted it
ToldOnce(l, b) ==
    \A k \in DOMAIN lights[l].observer_map :
        /\ Len(Notified(l, k)) = 1
        /\ Notified(l, k)[1].state = b
        /\ k \in DOMAIN pre[l].observer_map
        /\ lights[l].observer_map[k].update_count = pre[l].observer_map[k].update_count + 1
        /\ Notified(l, k)[1].count = lights[l].observer_map[k].update_count

C2_AllHandlersInOrder ==
    (Returned("broadcast") /\ call.found) =>
        /\ Len(Handled) = Len(RegisteredFor(call.ty))
        /\ \A i \in DOMAIN Handled :
              /\ Handled[i].h = RegisteredFor(call.ty)[i]
              /\ Handled[i].event = call.event
C2_Witness ==
    /\ Returned("broadcast") /\ call.found
    /\ Len(Handled) = 2 /\ Handled[1].h = registered[1] /\ Handled[2].h = registered[2]
    /\ Len(Told) >= 1

\* C3: a broadcast of a LightAction turns the light it names, in a registered handler,
\* on (verb On) or off (verb Off) whatever its state was, and tells each observer
\* attached to the light exactly once, of the state the light has after the call.
C3_BroadcastSetsAndNotifies ==
    (Returned("broadcast") /\ call.event.type = "LightAction") =>
        \A i \in DOMAIN Bucket(call.ty) :
            LET h == Bucket(call.ty)[i]
            IN call.event.light_name \in DOMAIN handlerObjs[h].light_map =>
                 LET E == handlerObjs[h].light_map[call.event.light_name]
                 IN /\ lights[E].state = (call.event.action_type = "On")
                    /\ ToldOnce(E, lights[E].state)
                    /\ Len(Told) = Cardinality(DOMAIN lights[E].observer_map)
C3_Witness ==
    /\ Returned("broadcast") /\ call.event = LightAction("Off", "light_1")
    /\ Len(lights) >= 1 /\ lights[1].state = FALSE /\ pre[1].state = TRUE
    /\ DOMAIN lights[1].observer_map = ObserverKeys
    /\ Len(Told) = 2 /\ Told[1].state = FALSE /\ Told[2].state = FALSE

\* C4: executing the on command or the off command leaves the light on or off, and
\* tells each observer attached to it exactly once; on followed by off leaves it off.
C4_ExecuteSetsAndNotifies ==
    Returned("execute") =>
        /\ lights[call.light].state = (call.verb = "On")
        /\ ToldOnce(call.light, lights[call.light].state)
        /\ Len(Told) = Cardinality(DOMAIN lights[call.light].observer_map)
        /\ \A l \in LightIds \ {call.light} : lights[l] = pre[l]
C4_Witness ==
    /\ Returned("execute") /\ call.verb = "Off"
    /\ pre[call.light].state = TRUE /\ lights[call.light].state = FALSE
    /\ DOMAIN lights[call.light].observer_map = ObserverKeys
    /\ \A k \in ObserverKeys : lights[call.light].observer_map[k].update_count = 2

\* C5: when the handlers registered for a LightAction do not hold the light it names,
\* each handler is called and changes nothing: no light changes, no observer is told,
\* and broadcast returns as for any event that was handled.
C5_MissingTargetNoOp ==
    /\ (Returned("broadcast") /\ call.found /\ call.event.type = "LightAction"
          /\ \A i \in DOMAIN Bucket(call.ty) :
                call.event.light_name \notin DOMAIN handlerObjs[Bucket(call.ty)[i]].light_map)
        => /\ lights = pre
           /\ Told = <<>>
           /\ Len(Handled) = Len(Bucket(call.ty))
           /\ Len(trace) = Len(Handled)
           /\ ret = "unit"
    /\ \A i \in DOMAIN trace :
         (trace[i].e = "handle_event" /\ trace[i].event.type = "LightAction"
            /\ trace[i].event.light_name \notin DOMAIN handlerObjs[trace[i].h].light_map)
         => (i = Len(trace) \/ trace[i + 1].e = "handle_event")
C5_Witness ==
    /\ Returned("broadcast") /\ call.found /\ ret = "unit"
    /\ call.event = LightAction("On", "nonexistent")
    /\ Len(Handled) = 1 /\ lights = pre
    /\ \E n \in DOMAIN handlerObjs[Handled[1].h].light_map :
          LET l == handlerObjs[Handled[1].h].light_map[n]
          IN lights[l].state = FALSE /\ DOMAIN lights[l].observer_map # {}

\* C6: once detach_observer has returned true for a key, a later on / off of the light
\* tells no observer under that key, and tells every observer still attached once.
C6_DetachedNotNotified ==
    (Returned("execute") /\ note[1] = "detached" /\ note[2] = call.light) =>
        /\ Notified(call.light, note[3]) = <<>>
        /\ \A k \in DOMAIN pre[call.light].observer_map : Len(Notified(call.light, k)) = 1
        /\ \A i \in DOMAIN Told : Told[i].key # note[3]
C6_Witness ==
    /\ Returned("execute") /\ note[1] = "detached" /\ note[2] = call.light
    /\ Len(Told) = 1 /\ Told[1].key # note[3] /\ Told[1].count = 2

\* C7: detach_observer returns true exactly when the key was attached just before the
\* call; when it returns false, the light's state and its observers are unchanged.
C7_DetachResult ==
    Returned("detach_observer") =>
        /\ ret \in {"true", "false"}
        /\ ret = "true" <=> call.key \in DOMAIN pre[call.light].observer_map
        /\ ret = "false" => lights = pre
        /\ ret = "true" =>
              /\ lights[call.light].state = pre[call.light].state
              /\ DOMAIN lights[call.light].observer_map
                   = DOMAIN pre[call.light].observer_map \ {call.key}
              /\ \A k \in DOMAIN lights[call.light].observer_map :
                    lights[call.light].observer_map[k] = pre[call.light].observer_map[k]
C7_Witness ==
    /\ Returned("detach_observer") /\ ret = "false"
    /\ DOMAIN lights[call.light].observer_map = ObserverKeys \ {call.key}
    /\ lights[call.light].state = TRUE

\* C8: attach_observer always succeeds and leaves exactly the new observer under its key,
\* also when the key was taken; a later on / off tells one observer under that key, the
\* new one.
C8_AttachReplaces ==
    /\ Returned("attach_observer") =>
          /\ ret = "unit"
          /\ lights[call.light].observer_map[call.key] = call.observer
          /\ DOMAIN lights[call.light].observer_map
               = DOMAIN pre[call.light].observer_map \cup {call.key}
          /\ \A k \in DOMAIN pre[call.light].observer_map \ {call.key} :
                lights[call.light].observer_map[k] = pre[call.light].observer_map[k]
    /\ (Returned("execute") /\ note[1] = "replaced" /\ note[2] = call.light) =>
          /\ Len(Notified(call.light, note[3])) = 1
          /\ Notified(call.light, note[3])[1].count
               = pre[call.light].observer_map[note[3]].update_count + 1
C8_Witness ==
    /\ Returned("attach_observer")
    /\ call.key \in DOMAIN pre[call.light].observer_map
    /\ pre[call.light].observer_map[call.key].update_count = 2
    /\ lights[call.light].observer_map[call.key].update_count = 0

\* C9: a command on a light that a command on the stack has borrowed does not run: the
\* borrow is refused, the program panics with BorrowMutError, and the light keeps the
\* state the outer command gave it; no two commands on the stack hold the same light.
C9_NestedBorrowPanics ==
    /\ \A i, j \in DOMAIN stack :
          (i < j /\ stack[i].kind = "execute" /\ stack[j].kind = "execute"
             /\ stack[i].pc = "notify" /\ stack[j].pc = "notify")
          => stack[i].light # stack[j].light
    /\ borrowed = Holders
    /\ panicked = "BorrowMutError" =>
          LET p == trace[Len(trace)]
              ins == SelectSeq(trace, LAMBDA x : x.e = "execute" /\ x.l = p.l)
              outs == SelectSeq(trace, LAMBDA x : x.e = "return" /\ x.l = p.l)
          IN /\ p.e = "panic"
             /\ ret = "panic"
             /\ Len(ins) = Len(outs) + 1
             /\ lights[p.l].state = ins[Len(ins)].state
C9_Witness ==
    /\ panicked = "BorrowMutError"
    /\ trace[Len(trace)].state = TRUE
    /\ lights[trace[Len(trace)].l].state = FALSE
    /\ Len(Told) >= 2

\* C10: a light is borrowed only while a command on it is on the stack; when a call has
\* returned to the client no light is borrowed, so no later command is refused.
C10_BorrowScoped ==
    /\ borrowed = Holders
    /\ stack = <<>> => borrowed = {}
    /\ panicked # "BorrowMutError"
C10_Witness ==
    /\ Len(stack) = 2 /\ Top.kind = "execute" /\ Top.pc = "notify"
    /\ borrowed = {Top.light}
    /\ \E k \in DOMAIN pre[Top.light].observer_map :
          pre[Top.light].observer_map[k].update_count >= 1

\* the last "execute" entry of the trace up to entry i (0: none)
LastExecute(i) ==
    LET E == {j \in 1..i : trace[j].e = "execute"}
    IN IF E = {} THEN 0 ELSE CHOOSE j \in E : \A x \in E : x <= j

\* C11: within one broadcast everything runs nested and in order: a handler is called
\* only when the handler before it has returned, with its command and every notification
\* of it done; a command runs right after the handler that built it; an observer is told
\* only inside the command that changed its light; a command returns only when every
\* observer of its light has been told once; and broadcast returns only after its last
\* handler has, with nothing left to run.
C11_SynchronousNested ==
    /\ \A i \in DOMAIN trace :
          /\ trace[i].e = "handle_event" =>
                (i = 1 \/ trace[i - 1].e \in {"handle_event", "return"})
          /\ trace[i].e = "execute" =>
                (call.op = "broadcast" =>
                    i > 1 /\ trace[i - 1].e = "handle_event" /\ trace[i - 1].l = trace[i].l)
          /\ trace[i].e = "on_subject_updated" =>
                /\ i > 1 /\ trace[i - 1].e \in {"execute", "on_subject_updated"}
                /\ trace[i - 1].l = trace[i].l
          /\ trace[i].e = "return" =>
                LET s == LastExecute(i)
                    told == {trace[j].key : j \in (s + 1)..(i - 1)}
                IN /\ s > 0 /\ trace[s].l = trace[i].l
                   /\ \A j \in (s + 1)..(i - 1) :
                         trace[j].e = "on_subject_updated" /\ trace[j].l = trace[i].l
                   /\ told = DOMAIN lights[trace[i].l].observer_map
                   /\ Cardinality(told) = i - s - 1
    /\ ret # "pending" => stack = <<>>
    /\ (Returned("broadcast") /\ call.found) =>
          /\ Len(Handled) = Len(Bucket(call.ty))
          /\ trace[Len(trace)].e \in {"handle_event", "return"}
C11_Witness ==
    /\ Returned("broadcast") /\ Len(trace) = 6
    /\ trace[1].e = "handle_event" /\ trace[2].e = "execute"
    /\ trace[3].e = "on_subject_updated" /\ trace[4].e = "on_subject_updated"
    /\ trace[5].e = "return" /\ trace[6].e = "handle_event"
    /\ trace[1].h # trace[6].h

\* C12: a broadcast for an event type that no handler was registered for calls no
\* handler, not even those registered for other types, changes no light and no observer,
\* and tells no observer.
C12_UnhandledNoEffect ==
    (Returned("broadcast") /\ RegisteredFor(call.ty) = <<>>) =>
        /\ trace = <<>>
        /\ lights = pre
        /\ ~call.found
C12_Witness ==
    /\ Returned("broadcast") /\ call.ty = "OtherEvent" /\ trace = <<>>
    /\ call.event = LightAction("On", "light_1")
    /\ Len(registered) = 2
    /\ \E h \in HandlerIds :
          /\ "light_1" \in DOMAIN handlerObjs[h].light_map
          /\ LET l == handlerObjs[h].light_map["light_1"]
             IN lights[l].state = FALSE /\ DOMAIN lights[l].observer_map = ObserverKeys

\* C13 as stated: the handlers a broadcast calls are exactly the handlers registered for
\* the type of the payload itself, in their order; a payload of one type never reaches
\* a handler registered for another.
C13_PayloadDecidesBucket ==
    Returned("broadcast") =>
        /\ Len(Handled) = Len(RegisteredFor(call.event.type))
        /\ \A i \in DOMAIN Handled :
              /\ Handled[i].h = RegisteredFor(call.event.type)[i]
              /\ handles_type(Handled[i].h) = Handled[i].event.type

\* C14: a handler called with a payload that is not a LightAction does nothing and
\* returns: no light changes, no command runs, no observer is told, nothing panics, and
\* the broadcast goes on to the next handler and returns as usual.
C14_MismatchNoOp ==
    /\ (Returned("broadcast") /\ call.found /\ call.event.type # "LightAction") =>
          /\ lights = pre
          /\ Told = <<>>
          /\ Len(Handled) = Len(Bucket(call.ty))
          /\ Len(trace) = Len(Handled)
          /\ ret = "unit"
    /\ (call.op = "broadcast" /\ call.event.type # "LightAction") => panicked = "none"
    /\ \A i \in DOMAIN trace :
          (trace[i].e = "handle_event" /\ trace[i].event.type # "LightAction") =>
              /\ trace[i].l = 0
              /\ i = Len(trace) \/ trace[i + 1].e = "handle_event"
C14_Witness ==
    /\ Returned("broadcast") /\ call.found /\ call.event = OtherPayload
    /\ Len(Handled) = 2 /\ Len(trace) = 2 /\ lights = pre
    /\ OtherPayload.light_name \in DOMAIN handlerObjs[Handled[1].h].light_map
    /\ LET l == handlerObjs[Handled[1].h].light_map[OtherPayload.light_name]
       IN lights[l].state = FALSE /\ DOMAIN lights[l].observer_map # {}

\* C15: mediate puts the handler at the end of the bucket of the type id it declares,
\* after the handlers already there, making the bucket when there is none; the bucket
\* grows by one each time (nothing is merged or dropped), and every other bucket stays
\* as it was.
C15_MediateAppends ==
    [][\A h \in HandlerIds :
          (~handlerObjs[h].mediated /\ handlerObjs'[h].mediated) =>
              LET k == handles_type(h)
              IN /\ DOMAIN handlers' = DOMAIN handlers \cup {k}
                 /\ handlers'[k] = Bucket(k) \o <<h>>
                 /\ Len(handlers'[k]) = Len(SelectSeq(registered, LAMBDA g :
                                                         handles_type(g) = k)) + 1
                 /\ \A j \in DOMAIN handlers \ {k} : handlers'[j] = handlers[j]]_vars
C15_Witness ==
    /\ Idle /\ call.op = "mediate"
    /\ registered = <<1, 2, 3>>
    /\ "LightAction" \in DOMAIN handlers /\ handlers["LightAction"] = <<1, 3>>
    /\ "OtherEvent" \in DOMAIN handlers /\ handlers["OtherEvent"] = <<2>>

\* C17: no step of a broadcast, handled or not, changes the registry: the buckets, their
\* handlers and their order are those the mediate calls made; every broadcast that
\* returns has called the handlers its bucket now holds, in the bucket's order, so the
\* next broadcast of the type finds them again.
C17_BroadcastKeepsRegistry ==
    /\ [][call'.op = "broadcast" => (handlers' = handlers /\ registered' = registered)]_vars
    /\ [](\A k \in TypeIds : Bucket(k) = RegisteredFor(k))
    /\ []((Returned("broadcast") /\ call.found) =>
            /\ Len(Handled) = Len(handlers[call.ty])
            /\ \A i \in DOMAIN Handled : Handled[i].h = handlers[call.ty][i])
C17_Witness ==
    /\ Returned("broadcast") /\ call.found /\ call.ty = "LightAction"
    /\ Len(Handled) = 2 /\ Handled[1].h = 1 /\ Handled[2].h = 3
    /\ handlers["LightAction"] = <<1, 3>>
    /\ "OtherEvent" \in DOMAIN handlers /\ handlers["OtherEvent"] = <<2>>

\* C18: every handler in the bucket of a type id declares that type id, a registered
\* handler keeps the type id it declares, and a broadcast calls only handlers that
\* declare the type id it was made for.
C18_StoredUnderDeclared ==
    /\ [](\A k \in DOMAIN handlers : \A i \in DOMAIN handlers[k] :
              handles_type(handlers[k][i]) = k)
    /\ [](\A i \in DOMAIN trace :
              trace[i].e = "handle_event" => handles_type(trace[i].h) = call.ty)
    /\ [][\A h \in HandlerIds :
             handlerObjs[h].mediated => handlerObjs'[h].handles = handles_type(h)]_vars
C18_Witness ==
    /\ Returned("broadcast") /\ call.ty = "OtherEvent"
    /\ Len(Handled) = 1 /\ handles_type(Handled[1].h) = "OtherEvent"
    /\ "LightAction" \in DOMAIN handlers /\ Len(handlers["LightAction"]) = 2
    /\ Len(handlers["OtherEvent"]) = 1

\* C16: a command executed again right after it has returned starts from the state its
\* first execution left, the state of its verb; and an execution that starts from the
\* state of its verb leaves that state as it is and still tells every observer of the
\* light once, each counting it.
C16_RepeatReNotifies ==
    /\ [][(Returned("execute") /\ call' = call /\ ret' = "pending") =>
            /\ pre' = lights
            /\ pre'[call.light].state = VerbState(call.verb)]_vars
    /\ []((Returned("execute") /\ pre[call.light].state = VerbState(call.verb)) =>
            /\ lights[call.light].state = pre[call.light].state
            /\ ToldOnce(call.light, pre[call.light].state)
            /\ Len(Told) = Cardinality(DOMAIN lights[call.light].observer_map))
C16_Witness ==
    /\ Returned("execute") /\ call.verb = "On"
    /\ pre[call.light].state = TRUE /\ lights[call.light].state = TRUE
    /\ DOMAIN lights[call.light].observer_map = ObserverKeys
    /\ \A k \in ObserverKeys :
          /\ pre[call.light].observer_map[k].update_count = 1
          /\ lights[call.light].observer_map[k].update_count = 2
    /\ Len(Told) = 2

\* C19: a broadcast of a LightAction changes the state only of the light that carries the
\* name of the action, runs commands only on it and tells only its observers; every other
\* light, also one held by the same handler, keeps its state and its observers' counts.
C19_OnlyTargetAffected ==
    (call.op = "broadcast" /\ call.event.type = "LightAction") =>
        /\ \A l \in LightIds :
              lights[l].name # call.event.light_name => lights[l] = pre[l]
        /\ \A i \in DOMAIN trace :
              trace[i].e \in {"execute", "on_subject_updated", "return"} =>
                  lights[trace[i].l].name = call.event.light_name
C19_Witness ==
    /\ Returned("broadcast") /\ call.event = LightAction("Off", "light_2")
    /\ \E h \in HandlerIds : DOMAIN handlerObjs[h].light_map = LightNames
    /\ Len(lights) = 2
    /\ pre[2].state = TRUE /\ lights[2].state = FALSE
    /\ lights[1].state = TRUE /\ lights[1] = pre[1]
    /\ DOMAIN lights[1].observer_map # {} /\ DOMAIN lights[2].observer_map # {}
    /\ Len(Told) = Cardinality(DOMAIN lights[2].observer_map)

\* C20 as stated: however often a light with a LightStateObserver is switched, the
\* increment of update_count never overflows and never ends the round with a panic, and
\* after every command each observer of the light has counted one more update than before.
C20_CountNeverOverflows ==
    /\ panicked # "overflow"
    /\ Returned("execute") =>
          \A k \in DOMAIN lights[call.light].observer_map :
              lights[call.light].observer_map[k].update_count
                = pre[call.light].observer_map[k].update_count + 1

====
